---- MODULE Spec2Model ----
\* Configuration store of go-core-config: New and its options WithFilepath,
\* WithDefault and WithEnv over a Viper instance, the typed projection
\* ConfigStruct, and the read accessors.
EXTENDS Integers, Sequences, FiniteSets, TLC

VARIABLES
    opts,         \* the options passed to New, in call order
    environ,      \* the process environment: variable name -> value
    pc,           \* position of New: "new", "opts", "done"
    idx,          \* number of options New has called
    c,            \* the Config under construction (Viper layers and configStruct)
    prev,         \* c as it was when the last option was called
    optErrs,      \* the error each called option returned ("" for nil)
    ret,          \* what New returned: [store, err]
    mu,           \* the RWMutex of the Config: [writer, waiting, readers]
    callers,      \* the goroutines using the store New returned: for each its
                  \* position, the accessor it is in or was last in, and what
                  \* that call returned
    applying      \* the goroutine applying options to the store New returned:
                  \* the options it has still to call, its position in the
                  \* one it is in, and the error that one is about to return

vars == <<opts, environ, pc, idx, c, prev, optErrs, ret, mu, callers, applying>>

\* ---------------------------------------------------------------- bounds

\* longest option list passed to New
MaxOpts == 2

\* goroutines that use a store at the same time
NumCallers == 2

\* ---------------------------------------------------------------- values

\* A raw value of the tree: a string, a boolean, or nothing (Go nil).
Str(s) == <<"s", s>>
Bool(b) == <<"b", IF b THEN "true" ELSE "false">>
Nil == <<"nil", "">>
\* A nested map, as searchMap returns it for an inner path: its leaves by
\* their path below the map.
MapVal(leaves) == <<"m", leaves>>

IsStr(v) == v[1] = "s"
IsBool(v) == v[1] = "b"
IsMap(v) == v[1] = "m"
IsNil(v) == v[1] = "nil"

\* strings.ToUpper / strings.ToLower on the names the model uses
ToUpper(s) ==
    CASE s = "config" -> "CONFIG"
      [] s = "svc" -> "SVC"
      [] s = "environment" -> "ENVIRONMENT"
      [] s = "debug" -> "DEBUG"
      [] s = "settings" -> "SETTINGS"
      [] s = "app" -> "APP"
      [] s = "name" -> "NAME"
      [] s = "port" -> "PORT"
      [] s = "key1" -> "KEY1"
      [] s = "key2" -> "KEY2"
      [] s = "nonexistent" -> "NONEXISTENT"
      [] s = "key" -> "KEY"
      [] OTHER -> s

ToLower(s) ==
    CASE s = "ENVIRONMENT" -> "environment"
      [] s = "Debug" -> "debug"
      [] s = ".YAML" -> ".yaml"
      [] OTHER -> s

\* strings.Join(path, sep)
RECURSIVE Join(_, _)
Join(path, sep) ==
    IF Len(path) = 0 THEN ""
    ELSE IF Len(path) = 1 THEN path[1]
    ELSE path[1] \o sep \o Join(Tail(path), sep)

\* strings.Split(key, ".") on the dotted keys the model uses
Split(key) ==
    CASE key = "settings.key1" -> <<"settings", "key1">>
      [] key = "settings.key2" -> <<"settings", "key2">>
      [] key = "app.name" -> <<"app", "name">>
      [] key = "app.port" -> <<"app", "port">>
      [] key = "nonexistent.key" -> <<"nonexistent", "key">>
      [] OTHER -> <<key>>

\* a key's segments in lower and in upper case
LowerPath(path) == [i \in 1..Len(path) |-> ToLower(path[i])]
UpperPath(path) == [i \in 1..Len(path) |-> ToUpper(path[i])]

IsPrefix(p, q) == Len(p) <= Len(q) /\ SubSeq(q, 1, Len(p)) = p
IsProperPrefix(p, q) == Len(p) < Len(q) /\ SubSeq(q, 1, Len(p)) = p

\* The empty function: a layer of the tree with no key.
EmptyLayer == [p \in {} |-> Nil]

\* ---------------------------------------------------------------- Viper

\* searchMap: the value a layer holds at path: a leaf, the nested map below an
\* inner path, or nil.
searchMap(layer, path) ==
    IF path \in DOMAIN layer THEN layer[path]
    ELSE LET below == {q \in DOMAIN layer : IsProperPrefix(path, q)} IN
         IF below = {} THEN Nil
         ELSE MapVal([r \in {SubSeq(q, Len(path) + 1, Len(q)) : q \in below}
                         |-> layer[path \o r]])

\* isPathShadowedInDeepMap: a proper prefix of path holds a plain value.
isPathShadowedInDeepMap(path, layer) ==
    \E i \in 1..(Len(path) - 1) : SubSeq(path, 1, i) \in DOMAIN layer

\* isPathShadowedInFlatMap: a proper prefix of path is a bound key.
isPathShadowedInFlatMap(path, bound) ==
    \E i \in 1..(Len(path) - 1) : Join(SubSeq(path, 1, i), ".") \in DOMAIN bound

\* os.LookupEnv behind Viper's getEnv: an empty value counts as unset
\* (AllowEmptyEnv is never called).
getEnvOk(name) == name \in DOMAIN environ /\ environ[name] # ""

\* mergeWithEnvPrefix followed by the "." -> "_" key replacer of getEnv
mergeWithEnvPrefix(cc, path) ==
    IF cc.envPrefix # ""
    THEN Join(<<ToUpper(cc.envPrefix)>> \o UpperPath(path), "_")
    ELSE Join(UpperPath(path), "_")

\* isPathShadowedInAutoEnv: a proper prefix of path is set in the environment.
isPathShadowedInAutoEnv(cc, path) ==
    \E i \in 1..(Len(path) - 1) : getEnvOk(mergeWithEnvPrefix(cc, SubSeq(path, 1, i)))

\* the first bound variable of key that is set
RECURSIVE firstSetEnv(_)
firstSetEnv(names) ==
    IF Len(names) = 0 THEN Nil
    ELSE IF getEnvOk(names[1]) THEN Str(environ[names[1]])
    ELSE firstSetEnv(Tail(names))

\* the layers below the environment in the wrong order: the defaults before
\* the config file
findBelowEnv_DefaultsFirst(cc, path) ==
    IF ~IsNil(searchMap(cc.defaults, path)) THEN searchMap(cc.defaults, path)
    ELSE searchMap(cc.config, path)

\* the config-file layer and below
findBelowEnv(cc, path) ==
    LET nested == Len(path) > 1
        inConfig == searchMap(cc.config, path)
        inDefaults == searchMap(cc.defaults, path)
    IN  IF ~IsNil(inConfig) THEN inConfig
        ELSE IF nested /\ isPathShadowedInDeepMap(path, cc.config) THEN Nil
        ELSE inDefaults

\* find with the layers in the wrong order: the config file and the defaults
\* before the environment
find_ConfigBeforeEnv(cc, path) ==
    LET key == Join(path, ".")
        auto == mergeWithEnvPrefix(cc, path)
    IN  IF ~IsNil(findBelowEnv(cc, path)) THEN findBelowEnv(cc, path)
        ELSE IF cc.automaticEnvApplied /\ getEnvOk(auto) THEN Str(environ[auto])
        ELSE IF key \in DOMAIN cc.env THEN firstSetEnv(cc.env[key])
        ELSE Nil

\* Viper.find: environment, then config file, then defaults.
find(cc, path) ==
    LET nested == Len(path) > 1
        key == Join(path, ".")
        auto == mergeWithEnvPrefix(cc, path)
        bound == IF key \in DOMAIN cc.env THEN firstSetEnv(cc.env[key]) ELSE Nil
    IN  IF cc.automaticEnvApplied /\ getEnvOk(auto) THEN Str(environ[auto])
        ELSE IF cc.automaticEnvApplied /\ nested /\ isPathShadowedInAutoEnv(cc, path)
             THEN Nil
        ELSE IF ~IsNil(bound) THEN bound
        ELSE IF nested /\ isPathShadowedInFlatMap(path, cc.env) THEN Nil
        ELSE findBelowEnv(cc, path)

\* Viper.Get / Viper.IsSet: keys are case-insensitive.
viperGet(cc, key) == find(cc, LowerPath(Split(key)))
IsSet(cc, key) == ~IsNil(viperGet(cc, key))

\* Viper.AllKeys: bound environment keys, then the leaves of the config file,
\* then those of the defaults, a key being left out when a key of a higher
\* layer is a proper prefix of it.
AllKeys(cc) ==
    LET e == {Split(k) : k \in DOMAIN cc.env}
        unshadowed(layer, seen) ==
            {p \in DOMAIN layer : ~\E q \in seen : IsProperPrefix(q, p)}
        ec == e \cup unshadowed(cc.config, e)
    IN  ec \cup unshadowed(cc.defaults, ec)

\* getSettings: the values found for the keys, as one nested map (given by
\* its leaves); a key without a value is left out.
getSettings(found) ==
    LET keys == {p \in DOMAIN found : ~IsNil(found[p])}
        leavesOf(p) == IF IsMap(found[p]) THEN {p \o r : r \in DOMAIN found[p][2]} ELSE {p}
        owner(l) == CHOOSE p \in keys : l \in leavesOf(p)
        valueOf(p, l) ==
            IF IsMap(found[p]) THEN found[p][2][SubSeq(l, Len(p) + 1, Len(l))] ELSE found[p]
    IN  [l \in UNION {leavesOf(p) : p \in keys} |-> valueOf(owner(l), l)]

\* Viper.AllSettings: the value of every key of AllKeys.
AllSettings(cc) == getSettings([p \in AllKeys(cc) |-> find(cc, p)])

\* Viper.SetDefault: the value (a plain value or a nested map) replaces what
\* the defaults hold at and below the key; deepSearch turns every plain value
\* on the way to the key into a map.
SetDefault(defaults, key, value) ==
    LET path == LowerPath(Split(key))
        kept == {q \in DOMAIN defaults : ~IsPrefix(path, q) /\ ~IsProperPrefix(q, path)}
        added == IF IsMap(value) THEN {path \o LowerPath(r) : r \in DOMAIN value[2]}
                 ELSE {path}
        valueAt(l) ==
            IF IsMap(value)
            THEN LET r == CHOOSE r \in DOMAIN value[2] : path \o LowerPath(r) = l
                 IN  value[2][r]
            ELSE value
    IN  IF IsNil(value) THEN [q \in kept |-> defaults[q]]
        ELSE [l \in kept \cup added |-> IF l \in added THEN valueAt(l) ELSE defaults[l]]

\* the loop of WithDefault over the entries of the mapping, in the order the
\* iteration happens to take
RECURSIVE SetDefaults(_, _)
SetDefaults(defaults, entries) ==
    IF Len(entries) = 0 THEN defaults
    ELSE SetDefaults(SetDefault(defaults, entries[1][1], entries[1][2]), Tail(entries))

\* every order in which a Go map of these entries can be iterated
Orders(entrySet) ==
    {o \in [1..Cardinality(entrySet) -> entrySet] :
        \A i, j \in 1..Cardinality(entrySet) : i # j => o[i] # o[j]}

\* ---------------------------------------------------------------- casts

\* strconv.ParseBool: <<ok, value>>
ParseBool(s) ==
    IF s \in {"1", "t", "T", "TRUE", "true", "True"} THEN <<TRUE, TRUE>>
    ELSE IF s \in {"0", "f", "F", "FALSE", "false", "False"} THEN <<TRUE, FALSE>>
    ELSE <<FALSE, FALSE>>

\* cast.ToString, as Viper.GetString uses it
castToString(v) ==
    IF IsStr(v) \/ IsBool(v) THEN v[2] ELSE ""

\* a cast to bool that takes every non-empty string for true
ToBool_NonEmptyIsTrue(v) ==
    IF IsBool(v) THEN v[2] = "true" ELSE IsStr(v) /\ v[2] # ""

\* cast.ToBool, as Viper.GetBool uses it
ToBool(v) ==
    IF IsBool(v) THEN v[2] = "true"
    ELSE IF IsStr(v) THEN ParseBool(v[2])[1] /\ ParseBool(v[2])[2]
    ELSE FALSE

\* the keys and entries directly below a nested map given by its leaves
TopKeys(leaves) == {r[1] : r \in DOMAIN leaves}

\* cast.ToStringMapString, as Viper.GetStringMapString uses it
ToStringMapString(v) ==
    IF IsMap(v)
    THEN [k \in TopKeys(v[2]) |-> castToString(searchMap(v[2], <<k>>))]
    ELSE [k \in {} |-> ""]

\* ---------------------------------------------------------------- ConfigStruct

\* A map[string]string field: nil, or a (possibly empty) map.
NilMap == [isNil |-> TRUE, kv |-> [k \in {} |-> ""]]
MakeMap == [isNil |-> FALSE, kv |-> [k \in {} |-> ""]]

\* the struct tags of ConfigStruct
TagEnvironment == [name |-> "environment", required |-> TRUE, default |-> "development"]
TagDebug == [name |-> "debug", required |-> FALSE, default |-> "false"]
TagSettings == [name |-> "settings", required |-> FALSE, default |-> ""]

\* the zero ConfigStruct
ZeroConfigStruct == [Environment |-> "", Debug |-> FALSE, Settings |-> NilMap]

\* mapstructure with WeaklyTypedInput into a string: <<ok, value>>
DecodeString(v, old) ==
    IF IsStr(v) THEN <<TRUE, v[2]>>
    ELSE IF IsBool(v) THEN <<TRUE, IF v[2] = "true" THEN "1" ELSE "0">>
    ELSE <<FALSE, old>>

\* mapstructure with WeaklyTypedInput into a bool: <<ok, value>>
DecodeBool(v, old) ==
    IF IsBool(v) THEN <<TRUE, v[2] = "true">>
    ELSE IF IsStr(v) /\ ParseBool(v[2])[1] THEN <<TRUE, ParseBool(v[2])[2]>>
    ELSE IF IsStr(v) /\ v[2] = "" THEN <<TRUE, FALSE>>
    ELSE <<FALSE, old>>

\* mapstructure into a map[string]string: the entries are decoded into the
\* map the field already holds (ZeroFields is off), a new one if it is nil.
DecodeMap(v, old) ==
    IF ~IsMap(v) THEN <<FALSE, old>>
    ELSE LET entry(k) == DecodeString(searchMap(v[2], <<k>>), "")
             good == {k \in TopKeys(v[2]) : entry(k)[1]}
             merged == [k \in DOMAIN old.kv \cup good |->
                          IF k \in good THEN entry(k)[2] ELSE old.kv[k]]
         IN  <<good = TopKeys(v[2]), [isNil |-> FALSE, kv |-> merged]>>

\* mapstructure's decode of the settings into a ConfigStruct: every field
\* whose key the settings hold is decoded, the others keep their value; an
\* error of one field does not stop the decoding of the others.
\* <<ok, configStruct>>
decode(settings, old) ==
    LET e == IF IsNil(searchMap(settings, <<TagEnvironment.name>>))
             THEN <<TRUE, old.Environment>>
             ELSE DecodeString(searchMap(settings, <<TagEnvironment.name>>), old.Environment)
        d == IF IsNil(searchMap(settings, <<TagDebug.name>>))
             THEN <<TRUE, old.Debug>>
             ELSE DecodeBool(searchMap(settings, <<TagDebug.name>>), old.Debug)
        m == IF IsNil(searchMap(settings, <<TagSettings.name>>))
             THEN <<TRUE, old.Settings>>
             ELSE DecodeMap(searchMap(settings, <<TagSettings.name>>), old.Settings)
    IN  <<e[1] /\ d[1] /\ m[1],
          [Environment |-> e[2], Debug |-> d[2], Settings |-> m[2]]>>

\* Viper.Unmarshal(&c.configStruct)
Unmarshal(cc) == decode(AllSettings(cc), cc.configStruct)

\* applyDefaults that forgets the string fields
applyDefaults_SkipString(cs) ==
    [Environment |-> cs.Environment,
     Debug |-> IF TagDebug.default # "" /\ cs.Debug = FALSE
               THEN TagDebug.default = "true" ELSE cs.Debug,
     Settings |-> cs.Settings]

\* applyDefaults: a field with a non-empty default tag that holds its zero
\* value gets the tag's literal; a field with an empty tag is skipped.
applyDefaults(cs) ==
    [Environment |-> IF TagEnvironment.default # "" /\ cs.Environment = ""
                     THEN TagEnvironment.default ELSE cs.Environment,
     Debug |-> IF TagDebug.default # "" /\ cs.Debug = FALSE
               THEN TagDebug.default = "true" ELSE cs.Debug,
     Settings |-> cs.Settings]

\* validateRequiredFields that never looks at the value
validateRequiredFields_Skip(cs) == ""

\* validateRequiredFields: "" when every required field is non-zero, else the
\* error naming the first one that is zero.
validateRequiredFields(cs) ==
    IF TagEnvironment.required /\ cs.Environment = ""
    THEN "required field Environment is not set"
    ELSE IF TagDebug.required /\ cs.Debug = FALSE
    THEN "required field Debug is not set"
    ELSE IF TagSettings.required /\ cs.Settings.isNil
    THEN "required field Settings is not set"
    ELSE ""

\* ---------------------------------------------------------------- accessors

Get(cc, key) == viperGet(cc, key)

GetStringWithDefault(cc, key, defaultValue) ==
    IF IsSet(cc, key) THEN castToString(viperGet(cc, key)) ELSE defaultValue

GetBool(cc, key) == ToBool(viperGet(cc, key))

GetStringMapString(cc, key) == ToStringMapString(viperGet(cc, key))

GetConfigStruct(cc) == cc.configStruct

\* ---------------------------------------------------------------- inputs

L1(k, v) == <<k>> :> v
L2(k1, k2, v) == <<k1, k2>> :> v

\* The files of the file system: whether the path exists and can be read,
\* what its bytes are ("json" is JSON, hence YAML too; "yaml" is YAML only;
\* "empty" has no byte; "garbage" parses as neither), and the map they hold.
NoFile == [exists |-> FALSE, readable |-> FALSE, kind |-> "garbage", data |-> EmptyLayer]
FileAt(path) ==
    CASE path = "prod.yaml" ->
           [exists |-> TRUE, readable |-> TRUE, kind |-> "yaml",
            data |-> L1("environment", Str("production")) @@ L1("debug", Bool(TRUE))
                     @@ L2("settings", "key1", Str("value1"))]
      [] path = "empty.yaml" ->
           [exists |-> TRUE, readable |-> TRUE, kind |-> "empty", data |-> EmptyLayer]
      [] path = "noenv.json" ->
           [exists |-> TRUE, readable |-> TRUE, kind |-> "json",
            data |-> L1("environment", Str("")) @@ L1("debug", Bool(TRUE))]
      [] path = "partial.yml" ->
           [exists |-> TRUE, readable |-> TRUE, kind |-> "yaml",
            data |-> L1("Debug", Str("false")) @@ L2("settings", "key2", Bool(TRUE))]
      [] path = "bad.json" ->
           [exists |-> TRUE, readable |-> TRUE, kind |-> "garbage", data |-> EmptyLayer]
      [] path = "data.txt" ->
           [exists |-> TRUE, readable |-> TRUE, kind |-> "yaml",
            data |-> L1("environment", Str("fromtxt"))]
      [] path = "CONFIG.YAML" ->
           [exists |-> TRUE, readable |-> TRUE, kind |-> "yaml",
            data |-> L1("ENVIRONMENT", Bool(TRUE))]
      [] path = "baddebug.json" ->
           [exists |-> TRUE, readable |-> TRUE, kind |-> "json",
            data |-> L1("environment", Str("qa")) @@ L1("debug", Str("not-a-boolean"))]
      [] path = "locked.yaml" ->
           [exists |-> TRUE, readable |-> FALSE, kind |-> "yaml",
            data |-> L1("environment", Str("locked"))]
      [] OTHER -> NoFile

Paths ==
    {"prod.yaml", "empty.yaml", "noenv.json", "partial.yml", "bad.json", "data.txt",
     "CONFIG.YAML", "baddebug.json", "locked.yaml", "nonexistent.yaml", "config.txt"}

\* filepath.Ext
Ext(path) ==
    CASE path \in {"prod.yaml", "empty.yaml", "locked.yaml", "nonexistent.yaml"} -> ".yaml"
      [] path = "partial.yml" -> ".yml"
      [] path \in {"noenv.json", "bad.json", "baddebug.json"} -> ".json"
      [] path = "CONFIG.YAML" -> ".YAML"
      [] path \in {"data.txt", "config.txt"} -> ".txt"
      [] OTHER -> ""

\* The mappings passed to WithDefault, by name: sets of <<key, value>>.
DefaultsNamed(name) ==
    CASE name = "staging" ->
           {<<"environment", Str("staging")>>, <<"debug", Bool(TRUE)>>,
            <<"settings.key2", Str("value2")>>}
      [] name = "blank" -> {<<"environment", Str("")>>}
      [] name = "app" ->
           {<<"app.name", Str("default-app")>>, <<"ENVIRONMENT", Str("fallback")>>}
      [] name = "nested" ->
           {<<"app.port", Str("8080")>>, <<"app", MapVal(L1("name", Str("my-app")))>>}
      [] OTHER -> {}

DefaultNames == {"staging", "blank", "app", "nested"}

Prefixes == {"CONFIG", "config", "svc"}

\* The process environments New is run in.
Environs ==
    { [n \in {} |-> ""],
      ("CONFIG_ENVIRONMENT" :> "testing") @@ ("CONFIG_DEBUG" :> "true")
          @@ ("CONFIG_APP_NAME" :> "env-app") @@ ("CONFIG_SETTINGS_KEY1" :> "env1")
          @@ ("SVC_ENVIRONMENT" :> "svc-env"),
      ("CONFIG_ENVIRONMENT" :> "") @@ ("CONFIG_SETTINGS" :> "x"),
      ("CONFIG_DEBUG" :> "not-a-boolean") }

Option(kind, arg) == [kind |-> kind, arg |-> arg]

Options ==
    {Option("WithFilepath", p) : p \in Paths}
    \cup {Option("WithDefault", d) : d \in DefaultNames}
    \cup {Option("WithEnv", p) : p \in Prefixes}

OptionLists == UNION {[1..n -> Options] : n \in 0..MaxOpts}

\* ---------------------------------------------------------------- options

\* viper.New() and the Config literal of New
NewConfig ==
    [defaults |-> EmptyLayer, config |-> EmptyLayer, configType |-> "", configFile |-> "",
     envPrefix |-> "", automaticEnvApplied |-> FALSE, env |-> [k \in {} |-> <<>>],
     configStruct |-> [ZeroConfigStruct EXCEPT !.Settings = MakeMap]]

\* the decoder Viper picks for the config type: can it parse the file's bytes
Parses(configType, file) ==
    \/ configType = "yaml" /\ file.kind \in {"yaml", "json", "empty"}
    \/ configType = "json" /\ file.kind = "json"

\* Viper.ReadInConfig: <<ok, config>>; the map read replaces the config layer.
ReadInConfig(cc) ==
    LET file == FileAt(cc.configFile) IN
    IF file.exists /\ file.readable /\ Parses(cc.configType, file)
    THEN <<TRUE, [p \in {LowerPath(q) : q \in DOMAIN file.data} |->
                    file.data[CHOOSE q \in DOMAIN file.data : LowerPath(q) = p]]>>
    ELSE <<FALSE, cc.config>>

\* the extension switch without its default branch: any other extension is
\* read as YAML
ConfigTypeOf_DefaultYaml(path) ==
    IF ToLower(Ext(path)) = ".json" THEN "json" ELSE "yaml"

\* the extension switch of WithFilepath: the config type, "" when unsupported
ConfigTypeOf(path) ==
    LET ext == ToLower(Ext(path)) IN
    IF ext \in {".yaml", ".yml"} THEN "yaml"
    ELSE IF ext = ".json" THEN "json"
    ELSE ""

\* Unmarshal into c.configStruct, then validateRequiredFields: the tail of
\* WithFilepath and of WithEnv. <<c, err>>
Rederive(cc, unmarshalErr) ==
    LET u == Unmarshal(cc)
        c1 == [cc EXCEPT !.configStruct = u[2]]
    IN  IF ~u[1] THEN <<c1, unmarshalErr>>
        ELSE <<c1, validateRequiredFields(c1.configStruct)>>

\* WithFilepath that empties the tree's file layer before it reads
WithFilepath_ClearsFirst(cc, path) ==
    IF ConfigTypeOf(path) = "" THEN <<cc, "unsupported file format">>
    ELSE IF ~ReadInConfig([cc EXCEPT !.configType = ConfigTypeOf(path),
                                     !.configFile = path])[1]
    THEN <<[cc EXCEPT !.configType = ConfigTypeOf(path), !.configFile = path,
                      !.config = EmptyLayer],
           "failed to read config file">>
    ELSE Rederive([cc EXCEPT !.configType = ConfigTypeOf(path), !.configFile = path,
                             !.config = ReadInConfig([cc EXCEPT
                                            !.configType = ConfigTypeOf(path),
                                            !.configFile = path])[2]],
                  "failed to unmarshal ConfigStruct")

\* WithFilepath(path)(c): <<c, err>>
WithFilepath(cc, path) ==
    IF ConfigTypeOf(path) = "" THEN <<cc, "unsupported file format">>
    ELSE LET c1 == [cc EXCEPT !.configType = ConfigTypeOf(path), !.configFile = path]
             r == ReadInConfig(c1)
         IN  IF ~r[1] THEN <<c1, "failed to read config file">>
             ELSE Rederive([c1 EXCEPT !.config = r[2]], "failed to unmarshal ConfigStruct")

\* WithDefault(defaults)(c), the mapping iterated in this order: <<c, err>>
WithDefault(cc, entries) ==
    <<[cc EXCEPT !.defaults = SetDefaults(cc.defaults, entries)], "">>

\* the keys WithEnv binds
EnvKeys == {"environment", "debug", "app.name", "app.port"}

\* the variable name WithEnv binds a key to
EnvVarName(prefix, key) ==
    Join(<<ToUpper(prefix)>> \o UpperPath(Split(key)), "_")

\* WithEnv(prefix)(c): <<c, err>>
WithEnv(cc, prefix) ==
    LET bound == [k \in EnvKeys |->
                    (IF k \in DOMAIN cc.env THEN cc.env[k] ELSE <<>>)
                        \o <<EnvVarName(prefix, k)>>]
        c1 == [cc EXCEPT !.envPrefix = ToUpper(prefix), !.automaticEnvApplied = TRUE,
                         !.env = bound]
    IN  Rederive(c1, "failed to unmarshal ConfigStruct from env")

\* ---------------------------------------------------------------- New

NoReturn == [store |-> "none", err |-> ""]

\* sync.RWMutex: Lock announces the writer and waits for the writer and every
\* reader inside to leave; RLock waits while a writer is inside or announced.
Unlocked == [writer |-> FALSE, waiting |-> FALSE, readers |-> 0]
CanLock(m) == ~m.writer /\ m.readers = 0
CanRLock(m) == ~m.writer /\ ~m.waiting

Callers == 1..NumCallers
NoResult == <<"none">>
NoCall == [pc |-> "idle", op |-> "", arg |-> "", res |-> NoResult]

\* no option is applied to the store after New
NotApplying == [todo |-> <<>>, pc |-> "idle", err |-> ""]

\* the state before New is called on one of the option lists in one of the
\* environments
Start(lists, environs) ==
    /\ opts \in lists
    /\ environ \in environs
    /\ pc = "new"
    /\ idx = 0
    /\ c = NewConfig
    /\ prev = NewConfig
    /\ optErrs = <<>>
    /\ ret = NoReturn
    /\ mu = Unlocked
    /\ callers = [g \in Callers |-> NoCall]
    /\ applying = NotApplying

Init == Start(OptionLists, Environs)

\* New up to its loop: applyDefaults, then validateRequiredFields.
NewStart ==
    /\ pc = "new"
    /\ LET c1 == [c EXCEPT !.configStruct = applyDefaults(c.configStruct)]
           err == validateRequiredFields(c1.configStruct)
       IN  /\ c' = c1
           /\ prev' = c1
           /\ IF err # ""
              THEN pc' = "done" /\ ret' = [store |-> "nil", err |-> err]
              ELSE pc' = "opts" /\ ret' = ret
    /\ UNCHANGED <<opts, environ, idx, optErrs, mu, callers, applying>>

\* New's loop without the return on error: it goes on to the next option
Called_KeepGoing(r) ==
    /\ prev' = c
    /\ c' = r[1]
    /\ idx' = idx + 1
    /\ optErrs' = Append(optErrs, r[2])
    /\ pc' = pc /\ ret' = ret
    /\ UNCHANGED <<opts, environ, mu, callers, applying>>

\* one turn of New's loop: the option took the lock, returned <<c, err>> and
\* released the lock (its deferred Unlock)
Called(r) ==
    /\ CanLock(mu)
    /\ prev' = c
    /\ c' = r[1]
    /\ idx' = idx + 1
    /\ optErrs' = Append(optErrs, r[2])
    /\ IF r[2] # ""
       THEN pc' = "done" /\ ret' = [store |-> "nil", err |-> r[2]]
       ELSE pc' = pc /\ ret' = ret
    /\ UNCHANGED <<opts, environ, mu, callers, applying>>

CallWithFilepath ==
    /\ pc = "opts" /\ idx < Len(opts)
    /\ opts[idx + 1].kind = "WithFilepath"
    /\ Called(WithFilepath(c, opts[idx + 1].arg))

CallWithDefault ==
    /\ pc = "opts" /\ idx < Len(opts)
    /\ opts[idx + 1].kind = "WithDefault"
    /\ \E order \in Orders(DefaultsNamed(opts[idx + 1].arg)) :
          Called(WithDefault(c, order))

CallWithEnv ==
    /\ pc = "opts" /\ idx < Len(opts)
    /\ opts[idx + 1].kind = "WithEnv"
    /\ Called(WithEnv(c, opts[idx + 1].arg))

\* New returns the store once every option returned nil.
NewReturn ==
    /\ pc = "opts" /\ idx = Len(opts)
    /\ pc' = "done"
    /\ ret' = [store |-> "c", err |-> ""]
    /\ UNCHANGED <<opts, environ, idx, c, prev, optErrs, mu, callers, applying>>

Next ==
    \/ NewStart
    \/ CallWithFilepath
    \/ CallWithDefault
    \/ CallWithEnv
    \/ NewReturn

Spec == Init /\ [][Next]_vars

\* ---------------------------------------------------------------- use of the store

\* New returned the store.
Returned == pc = "done" /\ ret.store = "c"

\* what Unmarshal is handed: a value that is no pointer, a nil pointer, or a
\* pointer to a zero ConfigStruct
Targets == {"value", "nilPointer", "pointer"}

\* Config.Unmarshal that decodes into whatever it is handed
ConfigUnmarshal_AnyTarget(cc, target) ==
    <<"", decode(AllSettings(cc), ZeroConfigStruct)[2]>>

\* Config.Unmarshal(target): Viper decodes its settings into the target;
\* mapstructure refuses a target that is no pointer and a nil pointer.
\* <<err, what the target holds afterwards>>
ConfigUnmarshal(cc, target) ==
    IF target = "value" THEN <<"result must be a pointer", ZeroConfigStruct>>
    ELSE IF target = "nilPointer"
    THEN <<"result must be addressable (a pointer)", ZeroConfigStruct>>
    ELSE IF decode(AllSettings(cc), ZeroConfigStruct)[1]
    THEN <<"", decode(AllSettings(cc), ZeroConfigStruct)[2]>>
    ELSE <<"decoding failed", decode(AllSettings(cc), ZeroConfigStruct)[2]>>

\* The ConfigStruct GetConfigStruct hands out is a copy of the struct: the
\* string and the bool by value, Settings as the map itself, a Go map value
\* being a reference to the map.
SharedSettings == "c.configStruct.Settings"
CopyOf(cs) ==
    [Environment |-> cs.Environment, Debug |-> cs.Debug, Settings |-> SharedSettings]

\* the calls the goroutines make
AccessorCalls ==
    {[op |-> "Get", arg |-> "environment"],
     [op |-> "GetStringWithDefault", arg |-> "nonexistent.key"],
     [op |-> "GetBool", arg |-> "debug"],
     [op |-> "GetStringMapString", arg |-> "settings"],
     [op |-> "GetConfigStruct", arg |-> ""]}
    \cup {[op |-> "Unmarshal", arg |-> t] : t \in Targets}

\* c.mu.RLock(), the first statement of every accessor
RLock(g) ==
    /\ Returned
    /\ callers[g].pc = "idle"
    /\ CanRLock(mu)
    /\ \E call \in AccessorCalls :
          callers' = [callers EXCEPT ![g] =
                        [pc |-> "locked", op |-> call.op, arg |-> call.arg,
                         res |-> NoResult]]
    /\ mu' = [mu EXCEPT !.readers = @ + 1]
    /\ UNCHANGED <<opts, environ, pc, idx, c, prev, optErrs, ret, applying>>

\* a return that leaves the read lock held
RUnlock_Forgotten(m) == m

\* c.mu.RUnlock()
RUnlock(m) == [m EXCEPT !.readers = @ - 1]

\* goroutine g is in the accessor, past its RLock
In(g, op) == callers[g].pc = "locked" /\ callers[g].op = op

\* the accessor returns the value; its deferred RUnlock runs
Returns(g, value) ==
    /\ callers' = [callers EXCEPT ![g] = [@ EXCEPT !.pc = "idle", !.res = value]]
    /\ mu' = RUnlock(mu)
    /\ UNCHANGED <<opts, environ, pc, idx, c, prev, optErrs, ret, applying>>

CallGet(g) ==
    /\ In(g, "Get")
    /\ Returns(g, <<"value", Get(c, callers[g].arg)>>)

CallGetStringWithDefault(g) ==
    /\ In(g, "GetStringWithDefault")
    /\ Returns(g, <<"string", GetStringWithDefault(c, callers[g].arg, "fallback")>>)

CallGetBool(g) ==
    /\ In(g, "GetBool")
    /\ Returns(g, <<"bool", GetBool(c, callers[g].arg)>>)

CallGetStringMapString(g) ==
    /\ In(g, "GetStringMapString")
    /\ Returns(g, <<"map", GetStringMapString(c, callers[g].arg)>>)

CallGetConfigStruct(g) ==
    /\ In(g, "GetConfigStruct")
    /\ Returns(g, <<"struct", CopyOf(GetConfigStruct(c))>>)

CallUnmarshal(g) ==
    /\ In(g, "Unmarshal")
    /\ Returns(g, <<"unmarshal", ConfigUnmarshal(c, callers[g].arg)[1],
                    ConfigUnmarshal(c, callers[g].arg)[2]>>)

\* goroutine g holds a ConfigStruct that GetConfigStruct returned
Holds(g) == callers[g].pc = "idle" /\ callers[g].res[1] = "struct"

\* The caller assigns to a field of the ConfigStruct it holds.
ChangeField(g) ==
    /\ Holds(g)
    /\ callers[g].res[2].Environment # "changed"
    /\ callers' = [callers EXCEPT ![g].res =
                     <<"struct", [@[2] EXCEPT !.Environment = "changed"]>>]
    /\ UNCHANGED <<opts, environ, pc, idx, c, prev, optErrs, ret, mu, applying>>

\* the key the caller adds, overwrites and deletes
ChangedKeys == {"key1"}

\* The caller writes an entry of Settings of the ConfigStruct it holds, or
\* deletes one: the map is the one the projection holds.
ChangeSettings(g) ==
    /\ Holds(g)
    /\ callers[g].res[2].Settings = SharedSettings
    /\ \E k \in ChangedKeys :
          \/ c' = [c EXCEPT !.configStruct.Settings.kv = (k :> "changed") @@ @]
          \/ /\ k \in DOMAIN c.configStruct.Settings.kv
             /\ c' = [c EXCEPT !.configStruct.Settings.kv =
                         [j \in DOMAIN @ \ {k} |-> @[j]]]
    /\ UNCHANGED <<opts, environ, pc, idx, prev, optErrs, ret, mu, callers, applying>>

\* the constructions whose store the goroutines use
UseOptionLists ==
    { <<>>,
      <<Option("WithFilepath", "prod.yaml")>>,
      <<Option("WithDefault", "staging"), Option("WithEnv", "CONFIG")>> }

\* and the environments they are built in: nothing set, and the variables
\* of the prefix CONFIG set
UseEnvirons == {e \in Environs : \A n \in DOMAIN e : e[n] \notin {"", "not-a-boolean"}}

InitUse == Start(UseOptionLists, UseEnvirons)

NextUse ==
    \/ Next
    \/ \E g \in Callers : RLock(g)
    \/ \E g \in Callers : CallGet(g)
    \/ \E g \in Callers : CallGetStringWithDefault(g)
    \/ \E g \in Callers : CallGetBool(g)
    \/ \E g \in Callers : CallGetStringMapString(g)
    \/ \E g \in Callers : CallGetConfigStruct(g)
    \/ \E g \in Callers : CallUnmarshal(g)
    \/ \E g \in Callers : ChangeField(g)
    \/ \E g \in Callers : ChangeSettings(g)

SpecUse == InitUse /\ [][NextUse]_vars

\* ---------------------------------------------------------------- options on a store in use

\* An Option is an exported func(*Config) error: a goroutine that holds the
\* store can call one on it while others read. The option's body, statement
\* by statement:

\* WithFilepath from the extension switch to ReadInConfig: <<c, err>>
FilepathLoaded(cc, path) ==
    IF ConfigTypeOf(path) = "" THEN <<cc, "unsupported file format">>
    ELSE LET c1 == [cc EXCEPT !.configType = ConfigTypeOf(path), !.configFile = path]
             r == ReadInConfig(c1)
         IN  IF ~r[1] THEN <<c1, "failed to read config file">>
             ELSE <<[c1 EXCEPT !.config = r[2]], "">>

\* WithEnv from SetEnvPrefix to the last BindEnv, which returns an error for
\* an empty key only: <<c, err>>
EnvBound(cc, prefix) ==
    <<[cc EXCEPT !.envPrefix = ToUpper(prefix), !.automaticEnvApplied = TRUE,
                 !.env = [k \in EnvKeys |->
                            (IF k \in DOMAIN cc.env THEN cc.env[k] ELSE <<>>)
                                \o <<EnvVarName(prefix, k)>>]],
      "">>

\* the message the option wraps an error of Unmarshal in
UnmarshalErr(kind) ==
    IF kind = "WithEnv" THEN "failed to unmarshal ConfigStruct from env"
    ELSE "failed to unmarshal ConfigStruct"

\* the option lists the goroutine applies to the store, one option after the
\* other, whatever each returns
ApplyLists ==
    { <<Option("WithFilepath", "prod.yaml"), Option("WithFilepath", "noenv.json")>>,
      <<Option("WithDefault", "staging"), Option("WithEnv", "CONFIG")>>,
      <<Option("WithFilepath", "nonexistent.yaml"), Option("WithEnv", "svc")>>,
      <<Option("WithFilepath", "config.txt"), Option("WithFilepath", "baddebug.json")>> }

\* the option the goroutine is in, or calls next
Applied == applying.todo[1]

\* the goroutine is inside an option, between its Lock and its return
Writing == applying.pc \in {"locked", "loaded", "returning"}

\* c.mu.Lock(), the first statement of every option, called: the writer is
\* announced and waits for the readers inside to leave
OptionLock ==
    /\ Returned
    /\ applying.pc = "idle" /\ applying.todo # <<>>
    /\ applying' = [applying EXCEPT !.pc = "lockwait", !.err = ""]
    /\ mu' = [mu EXCEPT !.waiting = TRUE]
    /\ UNCHANGED <<opts, environ, pc, idx, c, prev, optErrs, ret, callers>>

\* c.mu.Lock() returns: the goroutine holds the write lock
OptionLocked ==
    /\ applying.pc = "lockwait"
    /\ CanLock(mu)
    /\ mu' = [mu EXCEPT !.writer = TRUE, !.waiting = FALSE]
    /\ applying' = [applying EXCEPT !.pc = "locked"]
    /\ prev' = c
    /\ UNCHANGED <<opts, environ, pc, idx, c, optErrs, ret, callers>>

\* the statements of the option that change the tree have run, to <<c, err>>;
\* the option returns from here on an error, and WithDefault in any case
Loaded(r) ==
    /\ applying.pc = "locked"
    /\ c' = r[1]
    /\ applying' = [applying EXCEPT !.err = r[2],
                      !.pc = IF r[2] # "" \/ Applied.kind = "WithDefault"
                             THEN "returning" ELSE "loaded"]
    /\ UNCHANGED <<opts, environ, pc, idx, prev, optErrs, ret, mu, callers>>

FilepathLoad ==
    /\ applying.todo # <<>> /\ Applied.kind = "WithFilepath"
    /\ Loaded(FilepathLoaded(c, Applied.arg))

DefaultLoad ==
    /\ applying.todo # <<>> /\ Applied.kind = "WithDefault"
    /\ \E order \in Orders(DefaultsNamed(Applied.arg)) : Loaded(WithDefault(c, order))

EnvLoad ==
    /\ applying.todo # <<>> /\ Applied.kind = "WithEnv"
    /\ Loaded(EnvBound(c, Applied.arg))

\* Unmarshal into c.configStruct and validateRequiredFields, the tail of
\* WithFilepath and WithEnv; neither takes the lock
OptionRederive ==
    /\ applying.pc = "loaded"
    /\ c' = Rederive(c, UnmarshalErr(Applied.kind))[1]
    /\ applying' = [applying EXCEPT !.pc = "returning",
                      !.err = Rederive(c, UnmarshalErr(Applied.kind))[2]]
    /\ UNCHANGED <<opts, environ, pc, idx, prev, optErrs, ret, mu, callers>>

\* an option whose deferred Unlock runs on a nil return only
Unlock_NotOnError(m, err) ==
    IF err = "" THEN [m EXCEPT !.writer = FALSE] ELSE m

\* the deferred c.mu.Unlock() of an option that returns err
Unlock(m, err) == [m EXCEPT !.writer = FALSE]

\* the option returns its error; the deferred Unlock runs
OptionReturn ==
    /\ applying.pc = "returning"
    /\ mu' = Unlock(mu, applying.err)
    /\ optErrs' = Append(optErrs, applying.err)
    /\ applying' = [applying EXCEPT !.pc = "idle", !.todo = Tail(@)]
    /\ UNCHANGED <<opts, environ, pc, idx, c, prev, ret, callers>>

InitApply ==
    /\ opts \in UseOptionLists
    /\ environ \in {e \in UseEnvirons : DOMAIN e # {}}
    /\ pc = "new"
    /\ idx = 0
    /\ c = NewConfig
    /\ prev = NewConfig
    /\ optErrs = <<>>
    /\ ret = NoReturn
    /\ mu = Unlocked
    /\ callers = [g \in Callers |-> NoCall]
    /\ applying \in {[NotApplying EXCEPT !.todo = l] : l \in ApplyLists}

NextApply ==
    \/ Next
    \/ OptionLock
    \/ OptionLocked
    \/ FilepathLoad
    \/ DefaultLoad
    \/ EnvLoad
    \/ OptionRederive
    \/ OptionReturn
    \/ \E g \in Callers : RLock(g)
    \/ \E g \in Callers : CallGet(g)
    \/ \E g \in Callers : CallGetStringWithDefault(g)
    \/ \E g \in Callers : CallGetBool(g)
    \/ \E g \in Callers : CallGetStringMapString(g)
    \/ \E g \in Callers : CallGetConfigStruct(g)
    \/ \E g \in Callers : CallUnmarshal(g)

SpecApply == InitApply /\ [][NextApply]_vars

\* ---------------------------------------------------------------- the struct methods

\* The ConfigStructs applyDefaults and validateRequiredFields are called on:
\* the one of New, and those of a Config literal as the package's tests
\* write it, with or without a Settings map.
StructInputs ==
    [Environment : {"", "development", "production", "staging", "testing"},
     Debug : BOOLEAN,
     Settings : {NilMap, MakeMap,
                 [isNil |-> FALSE, kv |-> ("key1" :> "value1")],
                 [isNil |-> FALSE, kv |-> ("key2" :> "value2")]}]

InitFields ==
    /\ opts = <<>>
    /\ environ \in {e \in Environs : DOMAIN e = {}}
    /\ pc = "fields"
    /\ idx = 0
    /\ c \in {[NewConfig EXCEPT !.configStruct = cs] : cs \in StructInputs}
    /\ prev = c
    /\ optErrs = <<>>
    /\ ret = NoReturn
    /\ mu = Unlocked
    /\ callers = [g \in Callers |-> NoCall]
    /\ applying = NotApplying

\* c.applyDefaults()
CallApplyDefaults ==
    /\ pc = "fields"
    /\ prev' = c
    /\ c' = [c EXCEPT !.configStruct = applyDefaults(c.configStruct)]
    /\ ret' = [store |-> "applyDefaults", err |-> ""]
    /\ UNCHANGED <<opts, environ, pc, idx, optErrs, mu, callers, applying>>

\* c.validateRequiredFields()
CallValidateRequiredFields ==
    /\ pc = "fields"
    /\ prev' = c
    /\ ret' = [store |-> "validateRequiredFields",
               err |-> validateRequiredFields(c.configStruct)]
    /\ UNCHANGED <<opts, environ, pc, idx, c, optErrs, mu, callers, applying>>

NextFields ==
    \/ CallApplyDefaults
    \/ CallValidateRequiredFields

SpecFields == InitFields /\ [][NextFields]_vars

\* ---------------------------------------------------------------- claims

\* the keys the claims read
ClaimKeys == {"environment", "debug", "settings.key1", "settings.key2", "app.name"}
KeyPath(k) == LowerPath(Split(k))

\* what an option's source holds: the leaves of a WithDefault mapping and of a
\* file as Viper stores them
DefaultLayer(name) ==
    SetDefaults(EmptyLayer, CHOOSE o \in Orders(DefaultsNamed(name)) : TRUE)
FileLayer(path) ==
    ReadInConfig([NewConfig EXCEPT !.configType = ConfigTypeOf(path),
                                   !.configFile = path])[2]

OfKind(kind) == {i \in 1..Len(opts) : opts[i].kind = kind}
Last(S) == IF S = {} THEN 0 ELSE CHOOSE i \in S : \A j \in S : j <= i
First(S) == IF S = {} THEN 0 ELSE CHOOSE i \in S : \A j \in S : i <= j

\* option i supplies a value for key k (an environment variable: it is set)
Supplies(i, k) ==
    CASE opts[i].kind = "WithDefault" -> KeyPath(k) \in DOMAIN DefaultLayer(opts[i].arg)
      [] opts[i].kind = "WithFilepath" -> KeyPath(k) \in DOMAIN FileLayer(opts[i].arg)
      [] OTHER -> EnvVarName(opts[i].arg, k) \in DOMAIN environ

\* the value option i supplies for key k
Supplied(i, k) ==
    CASE opts[i].kind = "WithDefault" -> DefaultLayer(opts[i].arg)[KeyPath(k)]
      [] opts[i].kind = "WithFilepath" -> FileLayer(opts[i].arg)[KeyPath(k)]
      [] OTHER -> Str(environ[EnvVarName(opts[i].arg, k)])

\* option i supplies a value for key k that Viper can see once New returned:
\* a WithDefault entry; an entry of the file loaded last; a non-empty
\* environment variable that WithEnv bound or that carries the last prefix set
Visible(i, k) ==
    /\ Supplies(i, k)
    /\ opts[i].kind = "WithFilepath" => i = Last(OfKind("WithFilepath"))
    /\ opts[i].kind = "WithEnv" =>
          /\ environ[EnvVarName(opts[i].arg, k)] # ""
          /\ k \in EnvKeys \/ i = Last(OfKind("WithEnv"))

VisibleOf(kind, k) == {i \in OfKind(kind) : Visible(i, k)}

\* no source holds a plain value at a proper prefix of the key
NoPrefixConflict(k) ==
    \A n \in 1..(Len(KeyPath(k)) - 1) :
        LET q == SubSeq(KeyPath(k), 1, n) IN
        /\ \A i \in OfKind("WithEnv") :
              ~getEnvOk(Join(<<ToUpper(opts[i].arg)>> \o UpperPath(q), "_"))
        /\ \A i \in OfKind("WithFilepath") : q \notin DOMAIN FileLayer(opts[i].arg)
        /\ \A i \in OfKind("WithDefault") : q \notin DOMAIN DefaultLayer(opts[i].arg)

\* the option whose value Viper's fixed order picks: environment (the
\* variable of the last prefix, else the one bound first), then the file
\* loaded last, then the last WithDefault
Winner(k) ==
    LET e == VisibleOf("WithEnv", k)
        f == VisibleOf("WithFilepath", k)
        d == VisibleOf("WithDefault", k)
    IN  IF e # {} THEN (IF Last(OfKind("WithEnv")) \in e THEN Last(e) ELSE First(e))
        ELSE IF f # {} THEN Last(f)
        ELSE Last(d)

\* C1: a key supplied by several layers reads as the value of the highest
\* one in the order tag defaults < WithDefault < WithEnv < file; so a key the
\* loaded file supplies reads as the file's value, whatever the environment.
C1_FileIsHighestLayer ==
    Returned =>
        \A k \in ClaimKeys :
            LET f == Last(OfKind("WithFilepath")) IN
            (f # 0 /\ Supplies(f, k)) => Get(c, k) = Supplied(f, k)

ProjectedAs(cs, k) ==
    CASE k = "environment" -> Str(cs.Environment)
      [] k = "debug" -> Bool(cs.Debug)
      [] OTHER -> IF KeyPath(k)[2] \in DOMAIN cs.Settings.kv
                  THEN Str(cs.Settings.kv[KeyPath(k)[2]]) ELSE Nil

\* C3: after New(WithDefault(d)) the projection holds d's value for every
\* schema field d supplies.
C3_DefaultReachesProjection ==
    (Returned /\ Len(opts) = 1 /\ opts[1].kind = "WithDefault") =>
        \A k \in {"environment", "debug", "settings.key2"} :
            Supplies(1, k) => ProjectedAs(GetConfigStruct(c), k) = Supplied(1, k)

\* C4: after every successful construction the projection agrees with the
\* tree on environment, debug and settings.
C4_ProjectionAgreesWithTree ==
    Returned =>
        /\ GetConfigStruct(c).Environment = GetStringWithDefault(c, "environment", "")
        /\ GetConfigStruct(c).Debug = GetBool(c, "debug")
        /\ GetConfigStruct(c).Settings.kv = GetStringMapString(c, "settings")

\* C5: a store New returned has a non-empty Environment in its projection.
C5_RequiredNonZero ==
    Returned => GetConfigStruct(c).Environment # ""

\* C5 witness: New returned a store whose Environment an option re-derived.
C5_Witness ==
    /\ Returned
    /\ Len(opts) >= 1
    /\ GetConfigStruct(c).Environment \notin {"", TagEnvironment.default}

\* C6: New with no options returns a store with Environment "development",
\* Debug false and an empty, non-nil Settings.
C6_NoOptions ==
    (opts = <<>> /\ pc = "done") =>
        /\ ret = [store |-> "c", err |-> ""]
        /\ GetConfigStruct(c).Environment = "development"
        /\ GetConfigStruct(c).Debug = FALSE
        /\ ~GetConfigStruct(c).Settings.isNil
        /\ DOMAIN GetConfigStruct(c).Settings.kv = {}

\* C6 witness: New() has returned.
C6_Witness == opts = <<>> /\ pc = "done" /\ ret.store = "c"

\* C7: an option that fails required-field validation is the one that
\* produced the zero value: the tree before it still gave a valid projection.
C7_FailsAtProducer ==
    (idx >= 1 /\ optErrs[idx] = "required field Environment is not set")
    => validateRequiredFields(Unmarshal(prev)[2]) = ""

\* C8: once an option failed New is done, returns nil with that option's
\* error, and no later option is called.
C8_FirstErrorAborts ==
    \A i \in 1..Len(optErrs) :
        optErrs[i] # "" =>
            /\ pc = "done"
            /\ ret = [store |-> "nil", err |-> optErrs[i]]
            /\ Len(optErrs) = i
            /\ idx = i

\* C8 witness: the first of two options failed and the second was not called.
C8_Witness ==
    /\ pc = "done" /\ ret.store = "nil"
    /\ Len(opts) = 2 /\ idx = 1 /\ optErrs[1] # ""

\* the last option called was WithFilepath
AfterFilepath == idx >= 1 /\ opts[idx].kind = "WithFilepath"

\* that option failed on the extension, changed nothing, and New returned nil
UnsupportedRejected ==
    /\ optErrs[idx] = "unsupported file format"
    /\ c = prev
    /\ pc = "done" /\ ret.store = "nil"

ExtNotListed(path) == Ext(path) \notin {".yaml", ".yml", ".json"}
ExtNotListedAnyCase(path) == ToLower(Ext(path)) \notin {".yaml", ".yml", ".json"}

\* C9 as stated: WithFilepath on a path whose extension is not .yaml, .yml or
\* .json fails with "unsupported file format", changes nothing, and New
\* returns no store.
C9_UnsupportedExtension ==
    (AfterFilepath /\ ExtNotListed(opts[idx].arg)) => UnsupportedRejected

\* C9 amended: the same for a path whose extension, lower-cased, is not
\* .yaml, .yml or .json.
C9_UnsupportedExtensionAnyCase ==
    (AfterFilepath /\ ExtNotListedAnyCase(opts[idx].arg)) => UnsupportedRejected

\* C9 witness: a .txt file that exists is rejected after a WithDefault.
C9_Witness ==
    /\ AfterFilepath /\ ExtNotListedAnyCase(opts[idx].arg)
    /\ idx = 2 /\ opts[1].kind = "WithDefault"
    /\ FileAt(opts[2].arg).exists
    /\ UnsupportedRejected

SchemaKeys == {"environment", "debug", "settings"}
Field(cs, k) ==
    CASE k = "environment" -> Str(cs.Environment)
      [] k = "debug" -> Bool(cs.Debug)
      [] OTHER -> MapVal(cs.Settings)

\* a variable of the prefix is set for the schema key or for a key below it
EnvSupplies(prefix, k) ==
    \E n \in DOMAIN environ :
        \/ n = EnvVarName(prefix, k)
        \/ k = "settings" /\ n \in {EnvVarName(prefix, "settings.key1"),
                                     EnvVarName(prefix, "settings.key2")}

\* the last option called loaded a file without a byte
AfterEmptyFile ==
    /\ AfterFilepath
    /\ ConfigTypeOf(opts[idx].arg) = "yaml"
    /\ FileAt(opts[idx].arg).exists /\ FileAt(opts[idx].arg).readable
    /\ FileAt(opts[idx].arg).kind = "empty"

AfterEnv == idx >= 1 /\ opts[idx].kind = "WithEnv"

\* C11: an option that supplies no value for a schema key leaves the key as
\* it was: after an empty file, and after WithEnv for a key whose variable is
\* unset, the projection's field and the WithDefault values are unchanged,
\* and the option succeeds when it supplies no schema key at all.
C11_UnsuppliedKeyKeepsValue ==
    /\ AfterEmptyFile =>
          /\ optErrs[idx] = ""
          /\ c.configStruct = prev.configStruct
          /\ c.defaults = prev.defaults
    /\ AfterEnv =>
          /\ \A k \in SchemaKeys :
                ~EnvSupplies(opts[idx].arg, k)
                    => Field(c.configStruct, k) = Field(prev.configStruct, k)
          /\ c.defaults = prev.defaults
          /\ (\A k \in SchemaKeys : ~EnvSupplies(opts[idx].arg, k)) => optErrs[idx] = ""

\* C12: after WithDefault on a mapping with a dot-path key below a prefix and
\* a nested map at that prefix, every entry of both forms is readable,
\* whatever the order the mapping was iterated in.
C12_BothFormsReadable ==
    (Returned /\ \E i \in OfKind("WithDefault") : opts[i].arg = "nested") =>
        /\ IsSet(c, "app.port")
        /\ IsSet(c, "app.name")

\* a step of an accessor: the steps that take or release the read lock (the
\* callers' own steps, ChangeField and ChangeSettings, leave the lock alone)
AccessorStep == mu' # mu

\* the goroutines that hold the read lock
Locked == {g \in Callers : callers[g].pc = "locked"}

\* C13: changing the ConfigStruct that GetConfigStruct returned, a field or
\* an entry of its Settings (added, overwritten or deleted), does not change
\* what a later GetConfigStruct returns.
C13_CopyIsIndependent ==
    [][(\E g \in Callers : ChangeField(g) \/ ChangeSettings(g))
          => GetConfigStruct(c)' = GetConfigStruct(c)]_vars

\* C14: on a store New returned, the accessors of any goroutines, in every
\* interleaving, take the read lock only, are never blocked, release the lock
\* when they return, and leave the tree and the projection unchanged.
C14_ReadersNeverBlockOrWrite ==
    /\ [](Returned =>
            /\ ~mu.writer
            /\ mu.readers = Cardinality(Locked)
            /\ \A g \in Callers \ Locked : callers[g].pc = "idle" /\ CanRLock(mu)
            /\ \A g \in Locked : callers[g].op \in {call.op : call \in AccessorCalls})
    /\ [][AccessorStep => c' = c]_vars

\* C14 witness: every goroutine is inside an accessor at once, one of them
\* in Unmarshal and one in GetConfigStruct.
C14_Witness ==
    /\ Locked = Callers
    /\ mu.readers = NumCallers
    /\ \E g, h \in Callers :
          callers[g].op = "Unmarshal" /\ callers[h].op = "GetConfigStruct"

\* C15: Unmarshal into a target that is no pointer, or into a nil pointer,
\* returns an error, leaves the tree and the projection unchanged, and
\* releases the read lock: the caller can take it again.
C15_InvalidTargetFails ==
    [][\A g \in Callers :
          (/\ In(g, "Unmarshal") /\ callers[g].arg \in {"value", "nilPointer"}
           /\ callers'[g] # callers[g]) =>
              /\ callers'[g].res[2] # ""
              /\ c' = c
              /\ mu'.readers = mu.readers - 1
              /\ callers'[g].pc = "idle" /\ CanRLock(mu')]_vars

\* C15 witness: one goroutine got an error from Unmarshal into a nil
\* pointer, and another one holds the read lock.
C15_Witness ==
    \E g, h \in Callers :
        /\ callers[g].pc = "idle" /\ callers[g].op = "Unmarshal"
        /\ callers[g].arg = "nilPointer"
        /\ callers[g].res[2] # ""
        /\ callers[h].pc = "locked"

\* the keys read through the lenient accessors
LenientKeys == ClaimKeys \cup {"nonexistent.key", "app.port"}

\* one of the paths is at or above the other
Related(p, q) == IsPrefix(p, q) \/ IsPrefix(q, p)

\* no source of the construction holds the key, a key above it or one below
\* it: no WithDefault mapping, no file, no variable of a WithEnv prefix
InNoSource(k) ==
    /\ \A i \in OfKind("WithDefault") :
          \A o \in Orders(DefaultsNamed(opts[i].arg)) :
              \A q \in DOMAIN SetDefaults(EmptyLayer, o) : ~Related(KeyPath(k), q)
    /\ \A i \in OfKind("WithFilepath") :
          \A q \in DOMAIN FileLayer(opts[i].arg) : ~Related(KeyPath(k), q)
    /\ \A i \in OfKind("WithEnv") :
          \A n \in 1..Len(KeyPath(k)) :
              Join(<<ToUpper(opts[i].arg)>> \o UpperPath(SubSeq(KeyPath(k), 1, n)), "_")
                  \notin DOMAIN environ

\* the value is a boolean or a string that spells one
HasBooleanReading(v) == IsBool(v) \/ (IsStr(v) /\ ParseBool(v[2])[1])

\* C16: for a key set in no source Get returns nil, GetStringWithDefault the
\* caller's fallback, GetBool false and GetStringMapString an empty mapping;
\* GetBool of a value that is present but has no boolean reading is false.
\* (No accessor has an error result.)
C16_LenientAccessors ==
    Returned =>
        /\ \A k \in LenientKeys :
              InNoSource(k) =>
                  /\ Get(c, k) = Nil
                  /\ GetStringWithDefault(c, k, "fallback") = "fallback"
                  /\ GetBool(c, k) = FALSE
                  /\ DOMAIN GetStringMapString(c, k) = {}
        /\ \A k \in LenientKeys \cup {"settings"} :
              (~IsNil(Get(c, k)) /\ ~HasBooleanReading(Get(c, k)))
                  => GetBool(c, k) = FALSE

\* C16 witness: a store built from a file in which app.port is in no source
\* and environment is the string "production".
C16_Witness ==
    /\ Returned
    /\ OfKind("WithFilepath") # {}
    /\ InNoSource("app.port") /\ InNoSource("nonexistent.key")
    /\ Get(c, "app.port") = Nil
    /\ Get(c, "environment") = Str("production")
    /\ GetBool(c, "environment") = FALSE

\* validateRequiredFields fails on the projection exactly when Environment,
\* the one required field, is zero, and the error names it
FailsExactlyOnZero(cs) ==
    IF cs.Environment = ""
    THEN validateRequiredFields(cs) = "required field Environment is not set"
    ELSE validateRequiredFields(cs) = ""

\* the source of the last option called sets environment to the empty string
AfterBlankEnvironment ==
    /\ idx >= 1
    /\ optErrs[idx] \notin {"unsupported file format", "failed to read config file"}
    /\ Supplies(idx, "environment")
    /\ Supplied(idx, "environment") = Str("")

\* C17: validateRequiredFields fails, naming the field, exactly when a
\* required field of the projection is zero; zero counts as unset, so an
\* option whose source sets environment to the empty string fails with
\* "required field Environment is not set".
C17_ZeroIsUnset ==
    /\ FailsExactlyOnZero(c.configStruct)
    /\ AfterBlankEnvironment => optErrs[idx] = "required field Environment is not set"

\* C18 precondition: New returned after exactly two WithFilepath options.
AfterTwoFiles ==
    /\ Returned
    /\ Len(opts) = 2
    /\ opts[1].kind = "WithFilepath" /\ opts[2].kind = "WithFilepath"

\* C18: after two files loaded in sequence, a key the first file holds and
\* the second does not reads as it did after the first file, through the
\* raw accessors and in the projection.
C18_SecondFileKeepsOtherKeys ==
    AfterTwoFiles =>
        \A k \in ClaimKeys :
            (Supplies(1, k) /\ ~Supplies(2, k)) =>
                /\ Get(c, k) = Get(prev, k)
                /\ ProjectedAs(GetConfigStruct(c), k) = ProjectedAs(GetConfigStruct(prev), k)

\* C19: applyDefaults gives every default-tagged field that is zero its
\* literal (a string as is, a bool true only for "true"), leaves non-zero
\* fields unchanged, and makes a nil mapping whose literal is empty an
\* empty, non-nil mapping.
C19_DefaultsFillZeroFields ==
    ret.store = "applyDefaults" =>
        /\ c.configStruct.Environment =
              IF prev.configStruct.Environment = "" THEN TagEnvironment.default
              ELSE prev.configStruct.Environment
        /\ c.configStruct.Debug =
              IF prev.configStruct.Debug = FALSE THEN TagDebug.default = "true"
              ELSE prev.configStruct.Debug
        /\ c.configStruct.Settings =
              IF prev.configStruct.Settings.isNil THEN MakeMap
              ELSE prev.configStruct.Settings

\* the tree: what the raw accessors read from
Tree(cc) == <<cc.defaults, cc.config, cc.env, cc.envPrefix, cc.automaticEnvApplied>>

\* the last option called returned an error
OptionFailed == idx >= 1 /\ optErrs[idx] # ""

\* the errors of WithFilepath before the file is in the tree
EarlyErrors == {"unsupported file format", "failed to read config file"}

\* C20 as stated: an option that returns an error leaves the tree and the
\* projection as they were before it, whatever the cause.
C20_FailedOptionChangesNothing ==
    OptionFailed => Tree(c) = Tree(prev) /\ c.configStruct = prev.configStruct

\* C20 amended: an option that fails on the extension or on reading the file
\* leaves the tree and the projection as they were; one that fails on the
\* unmarshal or on the required fields has changed the tree already (the
\* file's content is loaded, the variables are bound); in every case New
\* returns no store.
C20_OnlyEarlyFailuresChangeNothing ==
    OptionFailed =>
        /\ optErrs[idx] \in EarlyErrors =>
              Tree(c) = Tree(prev) /\ c.configStruct = prev.configStruct
        /\ (optErrs[idx] \notin EarlyErrors /\ opts[idx].kind = "WithFilepath") =>
              c.config = FileLayer(opts[idx].arg)
        /\ (optErrs[idx] \notin EarlyErrors /\ opts[idx].kind = "WithEnv") =>
              /\ c.automaticEnvApplied /\ c.envPrefix = ToUpper(opts[idx].arg)
              /\ Tree(c) # Tree(prev)
        /\ pc = "done" /\ ret.store = "nil"

\* C20 witness: after prod.yaml is loaded, a file that does not exist fails
\* to be read and the tree still holds prod.yaml.
C20_Witness ==
    /\ OptionFailed
    /\ idx = 2
    /\ opts[1] = Option("WithFilepath", "prod.yaml")
    /\ opts[2] = Option("WithFilepath", "nonexistent.yaml")
    /\ optErrs[2] = "failed to read config file"
    /\ c.config = FileLayer("prod.yaml")
    /\ c.configStruct.Environment = "production"

\* the options the goroutine has called on the store New returned
AppliedErrs == SubSeq(optErrs, Len(opts) + 1, Len(optErrs))

\* C21: An option holds the write lock from its first statement to its
\* return, whatever it returns, and takes it once: the lock is the writer's
\* exactly while the goroutine is inside an option, and announced exactly
\* while it waits in Lock. So no accessor is inside the store while an option
\* is: the store an accessor reads is the one an option left at its return
\* or found at its start, never the tree an option has changed with the
\* projection it has not yet re-derived. And nobody waits for a lock that no
\* running goroutine will release: the option waits only for readers that are
\* inside and return, a reader only for an option that is waiting or inside.
C21_OptionsAreAtomic ==
    /\ mu.writer <=> Writing
    /\ mu.waiting <=> applying.pc = "lockwait"
    /\ mu.readers = Cardinality(Locked)
    /\ Locked # {} => ~Writing
    /\ applying.pc = "lockwait" => CanLock(mu) \/ Locked # {}
    /\ ~CanRLock(mu) => applying.pc = "lockwait" \/ Writing

\* An option is between its change of the tree and the re-derivation of the
\* projection, after an earlier option on the same store returned an error,
\* while one goroutine that read the store before waits in RLock and the
\* other has not read yet.
C21_Witness ==
    /\ applying.pc = "loaded"
    /\ Tree(c) # Tree(prev)
    /\ c.configStruct = prev.configStruct
    /\ Rederive(c, "")[1].configStruct # c.configStruct
    /\ AppliedErrs # <<>> /\ AppliedErrs[1] # ""
    /\ \E g \in Callers : callers[g].res # NoResult
    /\ ~CanRLock(mu)

====
